---- MODULE Spec2Model ----
(***************************************************************************)
(* Model of language/move-core/types/src/value.rs: the MoveValue /         *)
(* MoveStruct value tree, the MoveTypeLayout / MoveStructLayout layout     *)
(* tree, decoration, the flat-field accessors, the type-tag projection and *)
(* the BCS codec behind simple_serialize / simple_deserialize.             *)
(*                                                                         *)
(* Representation.  Every enum value is a tagged tuple whose first element *)
(* is the variant's name:                                                  *)
(*   MoveValue        <<"U8", n>>  <<"U64", limbs>>  <<"U128", limbs>>     *)
(*                    (limbs: the number in base 2^16, low limb first)     *)
(*                    <<"Bool", b>>  <<"Address", a>>  <<"Signer", a>>     *)
(*                    <<"Vector", vals>>  <<"Struct", s>>                  *)
(*   MoveStruct       <<"Runtime", vals>>  <<"WithFields", fields>>        *)
(*                    <<"WithTypes", type_, fields>>                       *)
(*                    with fields a sequence of <<name, value>>            *)
(*   MoveTypeLayout   <<"Bool">> <<"U8">> <<"U64">> <<"U128">>             *)
(*                    <<"Address">> <<"Signer">>                           *)
(*                    <<"Vector", layout>>  <<"Struct", structLayout>>     *)
(*   MoveStructLayout <<"Runtime", layouts>>  <<"WithFields", fieldLs>>    *)
(*                    <<"WithTypes", type_, fieldLs>>                      *)
(*   MoveFieldLayout  <<name, layout>>                                     *)
(*   TypeTag          <<"Bool">> ... <<"Vector", tag>>  <<"Struct", tag>>  *)
(*   Result           <<"Ok", x>>  <<"Err", e>>;  a panic is <<"Panic">>   *)
(***************************************************************************)
EXTENDS Integers, Sequences, FiniteSets, TLC

VARIABLES pc, op, val, prev, lay, blob, res

vars == <<pc, op, val, prev, lay, blob, res>>

RECURSIVE MoveValue_decorate(_, _)
RECURSIVE MoveStruct_decorate(_, _)
RECURSIVE MoveTypeLayout_try_into(_)
RECURSIVE MoveValue_serialize(_)
RECURSIVE MoveStruct_serialize(_)
RECURSIVE MoveTypeLayout_deserialize(_, _)
RECURSIVE MoveStructLayout_deserialize(_, _)

Min(a, b) == IF a <= b THEN a ELSE b

Max(a, b) == IF a >= b THEN a ELSE b

(***************************************************************************)
(* Constructors and accessors of the tagged tuples.                        *)
(***************************************************************************)
Runtime(vals) == <<"Runtime", vals>>

WithFields(fields) == <<"WithFields", fields>>

WithTypes(type_, fields) == <<"WithTypes", type_, fields>>

Struct(s) == <<"Struct", s>>

Vector(x) == <<"Vector", x>>

MoveFieldLayout_new(name, layout) == <<name, layout>>

Ok(x) == <<"Ok", x>>

Err(e) == <<"Err", e>>

\* A call that returns x normally, and one that panics instead.
Returned(x) == <<"Returned", x>>

Panic == <<"Panic">>

None == <<"None">>

IsOk(r) == r[1] = "Ok"

IsErr(r) == r[1] = "Err"

\* The representation kind of a struct or of a struct layout.
Kind(s) == s[1]

\* The (name, value) pairs of a decorated struct, the field layouts of a
\* decorated struct layout.
NamedFields(s) == IF Kind(s) = "WithTypes" THEN s[3] ELSE s[2]

\* The type tag of a Fully-typed struct or struct layout.
TypeOf(s) == s[2]

(***************************************************************************)
(* MoveValue::decorate and MoveStruct::decorate.  zip stops at the shorter *)
(* of its two sequences.                                                   *)
(***************************************************************************)
MoveValue_decorate(v, layout) ==
    CASE v[1] = "Struct" /\ layout[1] = "Struct" ->
           Struct(MoveStruct_decorate(v[2], layout[2]))
      [] v[1] = "Vector" /\ layout[1] = "Vector" ->
           Vector([i \in 1..Len(v[2]) |-> MoveValue_decorate(v[2][i], layout[2])])
      [] OTHER -> v

\* A mutant: the already-decorated pass-through re-labels a Fully-typed
\* struct with the layout's type.
MoveStruct_decorate_retag(s, layout) ==
    CASE Kind(s) = "Runtime" /\ Kind(layout) = "WithFields" ->
           WithFields([i \in 1..Min(Len(s[2]), Len(layout[2])) |->
               <<layout[2][i][1], MoveValue_decorate(s[2][i], layout[2][i][2])>>])
      [] Kind(s) = "Runtime" /\ Kind(layout) = "WithTypes" ->
           WithTypes(layout[2], [i \in 1..Min(Len(s[2]), Len(layout[3])) |->
               <<layout[3][i][1], MoveValue_decorate(s[2][i], layout[3][i][2])>>])
      [] Kind(s) = "WithFields" /\ Kind(layout) = "WithTypes" ->
           WithTypes(layout[2], [i \in 1..Min(Len(s[2]), Len(layout[3])) |->
               <<s[2][i][1], MoveValue_decorate(s[2][i][2], layout[3][i][2])>>])
      [] Kind(s) = "WithTypes" /\ Kind(layout) = "WithTypes" ->
           WithTypes(layout[2], s[3])
      [] OTHER -> s

\* A mutant: the field values are zipped without the recursive decoration.
MoveStruct_decorate_shallow(s, layout) ==
    CASE Kind(s) = "Runtime" /\ Kind(layout) = "WithFields" ->
           WithFields([i \in 1..Min(Len(s[2]), Len(layout[2])) |->
               <<layout[2][i][1], s[2][i]>>])
      [] Kind(s) = "Runtime" /\ Kind(layout) = "WithTypes" ->
           WithTypes(layout[2], [i \in 1..Min(Len(s[2]), Len(layout[3])) |->
               <<layout[3][i][1], s[2][i]>>])
      [] Kind(s) = "WithFields" /\ Kind(layout) = "WithTypes" ->
           WithTypes(layout[2], [i \in 1..Min(Len(s[2]), Len(layout[3])) |->
               <<s[2][i][1], s[2][i][2]>>])
      [] OTHER -> s

\* A mutant: a length mismatch keeps every value, padding past the layout's
\* fields with the last field's name.
MoveStruct_decorate_keepall(s, layout) ==
    CASE Kind(s) = "Runtime" /\ Kind(layout) = "WithFields" /\ Len(layout[2]) > 0 ->
           WithFields([i \in 1..Len(s[2]) |->
               LET j == Min(i, Len(layout[2]))
               IN <<layout[2][j][1], MoveValue_decorate(s[2][i], layout[2][j][2])>>])
      [] Kind(s) = "Runtime" /\ Kind(layout) = "WithTypes" /\ Len(layout[3]) > 0 ->
           WithTypes(layout[2], [i \in 1..Len(s[2]) |->
               LET j == Min(i, Len(layout[3]))
               IN <<layout[3][j][1], MoveValue_decorate(s[2][i], layout[3][j][2])>>])
      [] Kind(s) = "WithFields" /\ Kind(layout) = "WithTypes" /\ Len(layout[3]) > 0 ->
           WithTypes(layout[2], [i \in 1..Len(s[2]) |->
               LET j == Min(i, Len(layout[3]))
               IN <<s[2][i][1], MoveValue_decorate(s[2][i][2], layout[3][j][2])>>])
      [] OTHER -> s

\* A mutant: a Field-named struct met with a Fully-typed layout is left
\* Field-named.
MoveStruct_decorate_nopromote(s, layout) ==
    CASE Kind(s) = "Runtime" /\ Kind(layout) = "WithFields" ->
           WithFields([i \in 1..Min(Len(s[2]), Len(layout[2])) |->
               <<layout[2][i][1], MoveValue_decorate(s[2][i], layout[2][i][2])>>])
      [] Kind(s) = "Runtime" /\ Kind(layout) = "WithTypes" ->
           WithTypes(layout[2], [i \in 1..Min(Len(s[2]), Len(layout[3])) |->
               <<layout[3][i][1], MoveValue_decorate(s[2][i], layout[3][i][2])>>])
      [] OTHER -> s

\* A mutant: the zip pairs the field layouts with the values taken from the
\* back.
MoveStruct_decorate_reversed(s, layout) ==
    CASE Kind(s) = "Runtime" /\ Kind(layout) = "WithFields" ->
           WithFields([i \in 1..Min(Len(s[2]), Len(layout[2])) |->
               <<layout[2][i][1],
                 MoveValue_decorate(s[2][Len(s[2]) + 1 - i], layout[2][i][2])>>])
      [] Kind(s) = "Runtime" /\ Kind(layout) = "WithTypes" ->
           WithTypes(layout[2], [i \in 1..Min(Len(s[2]), Len(layout[3])) |->
               <<layout[3][i][1],
                 MoveValue_decorate(s[2][Len(s[2]) + 1 - i], layout[3][i][2])>>])
      [] Kind(s) = "WithFields" /\ Kind(layout) = "WithTypes" ->
           WithTypes(layout[2], [i \in 1..Min(Len(s[2]), Len(layout[3])) |->
               <<s[2][i][1],
                 MoveValue_decorate(s[2][Len(s[2]) + 1 - i][2], layout[3][i][2])>>])
      [] OTHER -> s

MoveStruct_decorate(s, layout) ==
    CASE Kind(s) = "Runtime" /\ Kind(layout) = "WithFields" ->
           WithFields([i \in 1..Min(Len(s[2]), Len(layout[2])) |->
               <<layout[2][i][1], MoveValue_decorate(s[2][i], layout[2][i][2])>>])
      [] Kind(s) = "Runtime" /\ Kind(layout) = "WithTypes" ->
           WithTypes(layout[2], [i \in 1..Min(Len(s[2]), Len(layout[3])) |->
               <<layout[3][i][1], MoveValue_decorate(s[2][i], layout[3][i][2])>>])
      [] Kind(s) = "WithFields" /\ Kind(layout) = "WithTypes" ->
           WithTypes(layout[2], [i \in 1..Min(Len(s[2]), Len(layout[3])) |->
               <<s[2][i][1], MoveValue_decorate(s[2][i][2], layout[3][i][2])>>])
      [] OTHER -> s

(***************************************************************************)
(* The flat-field accessors.  fields() borrows and panics on a decorated   *)
(* representation; into_fields() consumes and is total.                    *)
(***************************************************************************)
\* A mutant: fields() strips the names of a Field-named struct instead of
\* panicking.
MoveStruct_fields_lenient(s) ==
    CASE Kind(s) = "Runtime" -> Returned(s[2])
      [] Kind(s) = "WithFields" -> Returned([i \in 1..Len(s[2]) |-> s[2][i][2]])
      [] OTHER -> Panic

MoveStruct_fields(s) ==
    IF Kind(s) = "Runtime" THEN Returned(s[2]) ELSE Panic

MoveStruct_into_fields(s) ==
    IF Kind(s) = "Runtime"
    THEN s[2]
    ELSE [i \in 1..Len(NamedFields(s)) |-> NamedFields(s)[i][2]]

MoveStructLayout_fields(l) ==
    IF Kind(l) = "Runtime" THEN Returned(l[2]) ELSE Panic

MoveStructLayout_into_fields(l) ==
    IF Kind(l) = "Runtime"
    THEN l[2]
    ELSE [i \in 1..Len(NamedFields(l)) |-> NamedFields(l)[i][2]]

(***************************************************************************)
(* TryInto<StructTag> for &MoveStructLayout and TryInto<TypeTag> for       *)
(* &MoveTypeLayout.  The `?` of the vector and struct arms propagates the  *)
(* inner error.                                                            *)
(***************************************************************************)
NeededWithTypes == [kind |-> "NeededWithTypes"]

\* A mutant: a Field-named layout projects to a tag made of nothing.
MoveStructLayout_try_into_named(l) ==
    CASE Kind(l) = "WithTypes" -> Ok(TypeOf(l))
      [] Kind(l) = "WithFields" -> Ok("0x0::unknown::Unknown")
      [] OTHER -> Err(NeededWithTypes)

MoveStructLayout_try_into(l) ==
    IF Kind(l) \in {"Runtime", "WithFields"}
    THEN Err(NeededWithTypes)
    ELSE Ok(TypeOf(l))

MoveTypeLayout_try_into(l) ==
    CASE l[1] = "Vector" ->
           LET inner == MoveTypeLayout_try_into(l[2])
           IN IF IsErr(inner) THEN inner ELSE Ok(<<"Vector", inner[2]>>)
      [] l[1] = "Struct" ->
           LET inner == MoveStructLayout_try_into(l[2])
           IN IF IsErr(inner) THEN inner ELSE Ok(<<"Struct", inner[2]>>)
      [] OTHER -> Ok(<<l[1]>>)

(***************************************************************************)
(* Bounded inputs.  A struct or struct layout of the input sets has at     *)
(* most MaxFields fields; field i takes the i-th name of a fixed name      *)
(* list, values and layouts using different lists so that the origin of a  *)
(* name in a decorated struct can be told.                                 *)
(***************************************************************************)
MaxFields == 2

TagA == "0x1::M::A"

TagB == "0x1::M::B"

Tags == {TagA, TagB}

LayoutNames == <<"a", "b", "c", "d">>

ValueNames == <<"w", "x", "y", "z">>

\* Every struct shape (Bare, Field-named, Fully-typed) of at most n fields
\* drawn from F, field i named names[i].  Serves values and layouts alike.
StructsOver(F, n, names) ==
    UNION { UNION { { Runtime(f),
                      WithFields([i \in 1..k |-> <<names[i], f[i]>>]) }
                    \cup { WithTypes(t, [i \in 1..k |-> <<names[i], f[i]>>]) : t \in Tags }
                  : f \in [1..k -> F] }
          : k \in 0..n }

InnerValues ==
    { <<"U8", 7>>,
      Struct(Runtime(<< <<"U8", 7>>, <<"U8", 8>> >>)),
      Struct(WithFields(<< <<"q", <<"Bool", TRUE>> >> >>)),
      Vector(<< Struct(Runtime(<< <<"U8", 7>> >>)) >>) }

InnerLayouts ==
    { <<"U8">>,
      <<"Struct", WithFields(<< <<"p", <<"U8">> >> >>)>>,
      <<"Struct", WithTypes(TagB, << <<"p", <<"Bool">> >>, <<"r", <<"U8">> >> >>)>>,
      <<"Vector", <<"Struct", WithFields(<< <<"p", <<"U8">> >> >>)>> >> }

GenStructs == StructsOver(InnerValues, MaxFields, ValueNames)

GenStructLayouts == StructsOver(InnerLayouts, MaxFields, LayoutNames)

(***************************************************************************)
(* Decoration as a state machine: a struct owned by the caller is          *)
(* decorated against one layout after another.  `prev` is the struct the   *)
(* last call consumed, `lay` the layout it was given, `val` what it        *)
(* returned.                                                               *)
(***************************************************************************)
NoLayout == Runtime(<<>>)

InitDecorate ==
    /\ pc = "ready"
    /\ op = "new"
    /\ val \in GenStructs
    /\ prev = val
    /\ lay = NoLayout
    /\ blob = <<>>
    /\ res = None

\* The caller picks the layout of the next call.
ChooseLayout ==
    /\ pc = "ready"
    /\ \E l \in GenStructLayouts : lay' = l
    /\ pc' = "chosen"
    /\ op' = "choose"
    /\ UNCHANGED <<val, prev, blob, res>>

\* s.decorate(&layout): the struct is consumed, the result is the caller's.
Decorate ==
    /\ pc = "chosen"
    /\ val' = MoveStruct_decorate(val, lay)
    /\ prev' = val
    /\ pc' = "decorated"
    /\ op' = "decorate"
    /\ UNCHANGED <<lay, blob, res>>

\* The caller keeps the result as the struct of the next call.
Reuse ==
    /\ pc = "decorated"
    /\ prev' = val
    /\ lay' = NoLayout
    /\ pc' = "ready"
    /\ op' = "new"
    /\ UNCHANGED <<val, blob, res>>

NextDecorate == ChooseLayout \/ Decorate \/ Reuse

SpecDecorate == InitDecorate /\ [][NextDecorate]_vars

(***************************************************************************)
(* Claims about decoration, read in the states a decorate call has just    *)
(* produced: prev.decorate(lay) = val.                                     *)
(***************************************************************************)
Decorated == pc = "decorated"

\* Bare < Field-named < Fully-typed.
Rank(s) == CASE Kind(s) = "Runtime" -> 1
             [] Kind(s) = "WithFields" -> 2
             [] Kind(s) = "WithTypes" -> 3

\* The values of a struct in order, whatever its representation.
ValueAt(s, i) == IF Kind(s) = "Runtime" THEN s[2][i] ELSE NamedFields(s)[i][2]

Arity(s) == IF Kind(s) = "Runtime" THEN Len(s[2]) ELSE Len(NamedFields(s))

\* A value that decoration cannot touch: no struct and no vector.
IsLeaf(v) == v[1] \notin {"Struct", "Vector"}

\* C5 as stated: decorating a Bare struct of K values against a Field-named
\* layout of K fields yields the K pairs (layoutFields[i].name, values[i]),
\* the values as they were.
C5_AsStated ==
    (Decorated /\ Kind(prev) = "Runtime" /\ Kind(lay) = "WithFields"
       /\ Len(prev[2]) = Len(lay[2]))
    => val = WithFields([i \in 1..Len(prev[2]) |-> <<lay[2][i][1], prev[2][i]>>])

\* C5 amended: decorating a Bare struct of K values against a Field-named
\* layout of K fields yields a Field-named struct of exactly K pairs whose
\* i-th pair is (layoutFields[i].name, values[i].decorate(layoutFields[i].layout));
\* the value is values[i] itself when values[i] is neither a struct nor a vector.
C5_ShapeCorrespondence ==
    (Decorated /\ Kind(prev) = "Runtime" /\ Kind(lay) = "WithFields"
       /\ Len(prev[2]) = Len(lay[2]))
    => /\ Kind(val) = "WithFields"
       /\ Len(val[2]) = Len(prev[2])
       /\ \A i \in 1..Len(prev[2]) :
            /\ val[2][i][1] = lay[2][i][1]
            /\ val[2][i][2] = MoveValue_decorate(prev[2][i], lay[2][i][2])
            /\ IsLeaf(prev[2][i]) => val[2][i][2] = prev[2][i]
            /\ (prev[2][i][1] = "Struct" /\ Kind(prev[2][i][2]) = "Runtime"
                  /\ lay[2][i][2][1] = "Struct" /\ Kind(lay[2][i][2][2]) = "WithFields")
               => Kind(val[2][i][2][2]) = "WithFields"

\* C5's case: two Bare values against two named fields, the first a Bare
\* struct that the field's layout names.
C5_Witness ==
    /\ Decorated /\ Kind(prev) = "Runtime" /\ Kind(lay) = "WithFields"
    /\ Len(prev[2]) = 2 /\ Len(lay[2]) = 2
    /\ prev[2][1][1] = "Struct" /\ Kind(prev[2][1][2]) = "Runtime"
    /\ val[2][1][2] # prev[2][1]
    /\ IsLeaf(prev[2][2]) /\ val[2][2] = <<"b", prev[2][2]>>

\* C6: a Fully-typed struct decorated against any struct layout (any kind,
\* arity, type tag, nested layouts) comes back equal to itself.
C6_Idempotence ==
    (Decorated /\ Kind(prev) = "WithTypes") => val = prev

\* C6's case: a Fully-typed struct holding a Bare struct, against a
\* Fully-typed layout of another type and arity that names that field.
C6_Witness ==
    /\ Decorated /\ Kind(prev) = "WithTypes" /\ Kind(lay) = "WithTypes"
    /\ TypeOf(prev) # TypeOf(lay)
    /\ Len(prev[3]) = 1 /\ Len(lay[3]) = 2
    /\ prev[3][1][2][1] = "Struct" /\ Kind(prev[3][1][2][2]) = "Runtime"
    /\ lay[3][1][2][1] = "Struct" /\ Kind(lay[3][1][2][2]) = "WithFields"

\* A decorate call that zips: Bare against a named or typed layout, or
\* Field-named against a typed layout.
Zips(s, l) ==
    \/ Kind(s) = "Runtime" /\ Kind(l) \in {"WithFields", "WithTypes"}
    \/ Kind(s) = "WithFields" /\ Kind(l) = "WithTypes"

\* C9: when a zipping decorate call meets K values and N field layouts with
\* K # N it does not fail, and the result has exactly min(K, N) fields: the
\* i-th is the i-th value decorated against the i-th field layout, named by
\* the layout for a Bare struct and by the struct itself for a Field-named
\* one; the values or field layouts past min(K, N) are gone.
C9_LengthMismatchZip ==
    (Decorated /\ Zips(prev, lay) /\ Arity(prev) # Arity(lay))
    => /\ Kind(val) = Kind(lay)
       /\ Arity(val) = Min(Arity(prev), Arity(lay))
       /\ \A i \in 1..Min(Arity(prev), Arity(lay)) :
            /\ ValueAt(val, i) = MoveValue_decorate(ValueAt(prev, i), NamedFields(lay)[i][2])
            /\ NamedFields(val)[i][1] =
                 IF Kind(prev) = "Runtime" THEN NamedFields(lay)[i][1]
                                           ELSE NamedFields(prev)[i][1]

\* C9's case: more values than field layouts, at least one of each kept.
C9_Witness ==
    /\ Decorated /\ Zips(prev, lay)
    /\ Arity(prev) = 2 /\ Arity(lay) = 1
    /\ Arity(val) = 1

\* C9's other case: fewer values than field layouts.
C9_WitnessSurplusLayouts ==
    /\ Decorated /\ Kind(prev) = "WithFields" /\ Kind(lay) = "WithTypes"
    /\ Arity(prev) = 1 /\ Arity(lay) = 2
    /\ Arity(val) = 1

\* C10: over any sequence of decorate calls the representation kind never
\* moves back in Bare < Field-named < Fully-typed; the call against a layout
\* of kind k leaves the struct at max(current kind, k); a Fully-typed struct
\* keeps its type tag through every later call.
C10_MonotonicPromotion ==
    [][ /\ Rank(val') >= Rank(val)
        /\ (Kind(val) = "WithTypes" => TypeOf(val') = TypeOf(val))
        /\ (pc = "chosen" => Rank(val') = Max(Rank(val), Rank(lay))) ]_vars

\* C10's case: a struct born Bare, named by one call (its first name is the
\* layout's) and typed by a later one.
C10_Witness ==
    /\ Decorated /\ Kind(prev) = "WithFields" /\ Len(prev[2]) >= 1
    /\ prev[2][1][1] = "a"
    /\ Kind(val) = "WithTypes" /\ Len(val[3]) >= 1 /\ val[3][1][1] = "a"

(***************************************************************************)
(* The accessors and the projection as a state machine: one call on a      *)
(* struct or on a layout, its outcome kept in `res`.  A panic aborts.      *)
(***************************************************************************)
PrimLayouts == { <<"Bool">>, <<"U8">>, <<"U64">>, <<"U128">>, <<"Address">>, <<"Signer">> }

GenTypeLayouts ==
    LET structs == { <<"Struct", l>> : l \in GenStructLayouts }
        flat == PrimLayouts \cup structs
        vecs == { <<"Vector", l>> : l \in flat }
    IN flat \cup vecs \cup { <<"Vector", l>> : l \in vecs }

InitAccess ==
    /\ pc = "ready"
    /\ op = "new"
    /\ val \in GenStructs
    /\ prev = val
    /\ lay \in GenTypeLayouts
    /\ blob = <<>>
    /\ res = None

Outcome(r) == IF r = Panic THEN "aborted" ELSE "returned"

\* s.fields()
Fields ==
    /\ pc = "ready"
    /\ res' = MoveStruct_fields(val)
    /\ pc' = Outcome(res')
    /\ op' = "fields"
    /\ UNCHANGED <<val, prev, lay, blob>>

\* s.into_fields()
IntoFields ==
    /\ pc = "ready"
    /\ res' = Returned(MoveStruct_into_fields(val))
    /\ pc' = "returned"
    /\ op' = "into_fields"
    /\ UNCHANGED <<val, prev, lay, blob>>

\* l.fields() on the struct layout l of MoveTypeLayout::Struct(l)
LayoutFields ==
    /\ pc = "ready"
    /\ lay[1] = "Struct"
    /\ res' = MoveStructLayout_fields(lay[2])
    /\ pc' = Outcome(res')
    /\ op' = "layout_fields"
    /\ UNCHANGED <<val, prev, lay, blob>>

\* l.into_fields()
LayoutIntoFields ==
    /\ pc = "ready"
    /\ lay[1] = "Struct"
    /\ res' = Returned(MoveStructLayout_into_fields(lay[2]))
    /\ pc' = "returned"
    /\ op' = "layout_into_fields"
    /\ UNCHANGED <<val, prev, lay, blob>>

\* let tag: StructTag = (&l).try_into()
TryIntoStructTag ==
    /\ pc = "ready"
    /\ lay[1] = "Struct"
    /\ res' = MoveStructLayout_try_into(lay[2])
    /\ pc' = "returned"
    /\ op' = "try_into_struct_tag"
    /\ UNCHANGED <<val, prev, lay, blob>>

\* let tag: TypeTag = (&layout).try_into()
TryIntoTypeTag ==
    /\ pc = "ready"
    /\ res' = MoveTypeLayout_try_into(lay)
    /\ pc' = "returned"
    /\ op' = "try_into_type_tag"
    /\ UNCHANGED <<val, prev, lay, blob>>

NextAccess ==
    \/ Fields \/ IntoFields \/ LayoutFields \/ LayoutIntoFields
    \/ TryIntoStructTag \/ TryIntoTypeTag

SpecAccess == InitAccess /\ [][NextAccess]_vars

\* C7: the StructTag projection succeeds exactly for a Fully-typed struct
\* layout and then returns the embedded tag, whatever the field layouts; for
\* Bare and Field-named it is a recoverable error, and the TypeTag projection
\* of a vector layout around such a struct layout returns that error.
C7_TypeTagProjection ==
    /\ op = "try_into_struct_tag" =>
         /\ IsOk(res) <=> Kind(lay[2]) = "WithTypes"
         /\ Kind(lay[2]) = "WithTypes" => res = Ok(TypeOf(lay[2]))
         /\ Kind(lay[2]) \in {"Runtime", "WithFields"} => res = Err(NeededWithTypes)
    /\ (op = "try_into_type_tag" /\ lay[1] = "Struct") =>
         res = IF Kind(lay[2]) = "WithTypes"
               THEN Ok(<<"Struct", TypeOf(lay[2])>>) ELSE Err(NeededWithTypes)
    /\ (op = "try_into_type_tag" /\ lay[1] = "Vector" /\ lay[2][1] = "Struct") =>
         res = IF Kind(lay[2][2]) = "WithTypes"
               THEN Ok(<<"Vector", <<"Struct", TypeOf(lay[2][2])>> >>)
               ELSE Err(NeededWithTypes)
    /\ (op = "try_into_type_tag" /\ lay[1] = "Vector" /\ lay[2][1] = "Vector"
          /\ lay[2][2][1] = "Struct" /\ Kind(lay[2][2][2]) # "WithTypes") =>
         res = Err(NeededWithTypes)

\* C7's case: the error of a Field-named struct layout with fields, met
\* inside a vector layout.
C7_Witness ==
    /\ op = "try_into_type_tag" /\ lay[1] = "Vector" /\ lay[2][1] = "Struct"
    /\ Kind(lay[2][2]) = "WithFields" /\ Len(lay[2][2][2]) = 2
    /\ res = Err(NeededWithTypes)

\* C7's other case: a Fully-typed layout projects to its tag.
C7_WitnessTyped ==
    /\ op = "try_into_struct_tag" /\ Kind(lay[2]) = "WithTypes"
    /\ Len(lay[2][3]) = 2 /\ res = Ok(TagB)

\* C8: fields() on a struct or struct layout returns the positional
\* sequence for the Bare kind only and panics for the Field-named and
\* Fully-typed kinds; into_fields() returns for all three kinds the values
\* (element layouts) in declared order, names and type tag dropped.
C8_AccessorAsymmetry ==
    /\ op = "fields" =>
         /\ Kind(val) = "Runtime" => res = Returned(val[2])
         /\ Kind(val) \in {"WithFields", "WithTypes"} => (res = Panic /\ pc = "aborted")
    /\ op = "layout_fields" =>
         /\ Kind(lay[2]) = "Runtime" => res = Returned(lay[2][2])
         /\ Kind(lay[2]) \in {"WithFields", "WithTypes"} => (res = Panic /\ pc = "aborted")
    /\ op = "into_fields" =>
         /\ pc = "returned" /\ res[1] = "Returned"
         /\ Len(res[2]) = Arity(val)
         /\ \A i \in 1..Arity(val) : res[2][i] = ValueAt(val, i)
    /\ op = "layout_into_fields" =>
         /\ pc = "returned" /\ res[1] = "Returned"
         /\ Len(res[2]) = Arity(lay[2])
         /\ \A i \in 1..Arity(lay[2]) : res[2][i] = ValueAt(lay[2], i)

\* C8's case: fields() on a Field-named struct of two fields aborts.
C8_Witness ==
    /\ op = "fields" /\ Kind(val) = "WithFields" /\ Len(val[2]) = 2
    /\ res = Panic /\ pc = "aborted"

\* C8's other case: into_fields() on a Fully-typed struct of two fields.
C8_WitnessIntoFields ==
    /\ op = "into_fields" /\ Kind(val) = "WithTypes" /\ Len(val[3]) = 2
    /\ res = Returned(<<val[3][1][2], val[3][2][2]>>)

(***************************************************************************)
(* The BCS serializer behind simple_serialize (bcs::to_bytes).  A byte is  *)
(* a number in 0..255, a blob a sequence of bytes.                         *)
(***************************************************************************)
RECURSIVE Concat(_)
Concat(seqs) == IF seqs = <<>> THEN <<>> ELSE Head(seqs) \o Concat(Tail(seqs))

\* The ULEB128 form of a length: seven bits a byte, low bits first, the top
\* bit set on every byte but the last.
RECURSIVE uleb128(_)
uleb128(n) == IF n < 128 THEN <<n>> ELSE <<(n % 128) + 128>> \o uleb128(n \div 128)

\* u64 and u128 values are held as 16-bit limbs, least significant first
\* (four and eight of them), and written little-endian: each limb's low
\* byte, then its high byte.
to_le_bytes(limbs) ==
    Concat([i \in 1..Len(limbs) |-> <<limbs[i] % 256, limbs[i] \div 256>>])

\* str::as_bytes for the identifiers and rendered type tags of the model.
Utf8(s) ==
    CASE s = "a" -> <<97>>  [] s = "b" -> <<98>>  [] s = "c" -> <<99>>
      [] s = "d" -> <<100>> [] s = "p" -> <<112>> [] s = "q" -> <<113>>
      [] s = "r" -> <<114>> [] s = "w" -> <<119>> [] s = "x" -> <<120>>
      [] s = "y" -> <<121>> [] s = "z" -> <<122>>
      [] s = "0x1::M::A" -> <<48, 120, 49, 58, 58, 77, 58, 58, 65>>
      [] s = "0x1::M::B" -> <<48, 120, 49, 58, 58, 77, 58, 58, 66>>

\* A string on the wire: its byte length, then its bytes.
serialize_str(s) == uleb128(Len(Utf8(s))) \o Utf8(s)

\* Vec<u8>::cmp: lexicographic, a proper prefix first.
RECURSIVE BytesLess(_, _)
BytesLess(x, y) ==
    CASE x = <<>> -> y # <<>>
      [] y = <<>> -> FALSE
      [] Head(x) < Head(y) -> TRUE
      [] Head(x) > Head(y) -> FALSE
      [] OTHER -> BytesLess(Tail(x), Tail(y))

\* entries.sort_by(key): stable, so an entry goes behind the equal keys
\* already placed.
RECURSIVE InsertEntry(_, _)
InsertEntry(sorted, e) ==
    IF sorted = <<>> THEN <<e>>
    ELSE IF BytesLess(e[1], Head(sorted)[1])
         THEN <<e>> \o sorted
         ELSE <<Head(sorted)>> \o InsertEntry(Tail(sorted), e)

RECURSIVE SortEntries(_)
SortEntries(entries) ==
    IF entries = <<>> THEN <<>>
    ELSE InsertEntry(SortEntries(SubSeq(entries, 1, Len(entries) - 1)),
                     entries[Len(entries)])

\* entries.dedup_by(equal keys): of a run of equal keys the first stays.
RECURSIVE DedupEntries(_)
DedupEntries(entries) ==
    IF Len(entries) <= 1 THEN entries
    ELSE LET rest == DedupEntries(Tail(entries))
         IN IF Head(entries)[1] = Head(rest)[1]
            THEN <<Head(entries)>> \o Tail(rest)
            ELSE <<Head(entries)>> \o rest

\* MapSerializer::end: the entries ordered by key bytes, one per key, behind
\* their count.
serialize_map(entries) ==
    LET kept == DedupEntries(SortEntries(entries))
    IN uleb128(Len(kept)) \o Concat([i \in 1..Len(kept) |-> kept[i][1] \o kept[i][2]])

\* A mutant: the map is written as the bare values, keys and count left out.
MoveFields_serialize_valuesonly(fields) ==
    Concat([i \in 1..Len(fields) |-> MoveValue_serialize(fields[i][2])])

\* A mutant: the entries go out in declared order.
MoveFields_serialize_unsorted(fields) ==
    uleb128(Len(fields))
      \o Concat([i \in 1..Len(fields) |->
                   serialize_str(fields[i][1]) \o MoveValue_serialize(fields[i][2])])

MoveFields_serialize(fields) ==
    serialize_map([i \in 1..Len(fields) |->
        <<serialize_str(fields[i][1]), MoveValue_serialize(fields[i][2])>>])

\* StructTag's Display, the rendered tag being the tag's name in the model.
StructTag_to_string(type_) == type_

\* A mutant: a Bare struct is written as a sequence, behind its length.
MoveStruct_serialize_prefixed(s) ==
    CASE Kind(s) = "Runtime" ->
           uleb128(Len(s[2])) \o Concat([i \in 1..Len(s[2]) |-> MoveValue_serialize(s[2][i])])
      [] Kind(s) = "WithFields" -> MoveFields_serialize(s[2])
      [] Kind(s) = "WithTypes" ->
           serialize_str(StructTag_to_string(s[2])) \o MoveFields_serialize(s[3])

MoveStruct_serialize(s) ==
    CASE Kind(s) = "Runtime" ->
           Concat([i \in 1..Len(s[2]) |-> MoveValue_serialize(s[2][i])])
      [] Kind(s) = "WithFields" -> MoveFields_serialize(s[2])
      [] Kind(s) = "WithTypes" ->
           serialize_str(StructTag_to_string(s[2])) \o MoveFields_serialize(s[3])

AddressLength == 16

MoveValue_serialize(v) ==
    CASE v[1] = "Struct" -> MoveStruct_serialize(v[2])
      [] v[1] = "Bool" -> IF v[2] THEN <<1>> ELSE <<0>>
      [] v[1] = "U8" -> <<v[2]>>
      [] v[1] = "U64" -> to_le_bytes(v[2])
      [] v[1] = "U128" -> to_le_bytes(v[2])
      [] v[1] = "Address" -> v[2]
      [] v[1] = "Signer" -> v[2]
      [] v[1] = "Vector" ->
           uleb128(Len(v[2])) \o Concat([i \in 1..Len(v[2]) |-> MoveValue_serialize(v[2][i])])

\* bcs::to_bytes(self).ok(): nothing in a value of the model makes the
\* serializer fail.
simple_serialize(v) == <<"Some", MoveValue_serialize(v)>>

(***************************************************************************)
(* The BCS deserializer behind simple_deserialize (bcs::from_bytes_seed).  *)
(* A step returns <<"Ok", x, rest>> with the input left, or <<"Err", e>>.  *)
(***************************************************************************)
Eof == [kind |-> "Eof"]

ExpectedBoolean == [kind |-> "ExpectedBoolean"]

RemainingInput == [kind |-> "RemainingInput"]

NonCanonicalUleb128Encoding == [kind |-> "NonCanonicalUleb128Encoding"]

IntegerOverflowDuringUleb128Decoding == [kind |-> "IntegerOverflowDuringUleb128Decoding"]

ExceededMaxLen == [kind |-> "ExceededMaxLen"]

\* serde::de::Error::invalid_length(i, &visitor)
invalid_length(i) == [kind |-> "InvalidLength", index |-> i]

Ok3(x, rest) == <<"Ok", x, rest>>

Drop(input, n) == SubSeq(input, n + 1, Len(input))

\* The limbs of `width` little-endian bytes.
from_le_bytes(bytes) ==
    [i \in 1..(Len(bytes) \div 2) |-> bytes[2 * i - 1] + 256 * bytes[2 * i]]

deserialize_u8(input) ==
    IF input = <<>> THEN Err(Eof) ELSE Ok3(<<"U8", Head(input)>>, Tail(input))

\* u64 (8 bytes) and u128 (16 bytes).
deserialize_uint(variant, width, input) ==
    IF Len(input) < width THEN Err(Eof)
    ELSE Ok3(<<variant, from_le_bytes(SubSeq(input, 1, width))>>, Drop(input, width))

deserialize_bool(input) ==
    CASE input = <<>> -> Err(Eof)
      [] Head(input) = 0 -> Ok3(<<"Bool", FALSE>>, Tail(input))
      [] Head(input) = 1 -> Ok3(<<"Bool", TRUE>>, Tail(input))
      [] OTHER -> Err(ExpectedBoolean)

\* AccountAddress: its bytes as they are.
deserialize_address(variant, input) ==
    IF Len(input) < AddressLength THEN Err(Eof)
    ELSE Ok3(<<variant, SubSeq(input, 1, AddressLength)>>, Drop(input, AddressLength))

\* parse_length: a ULEB128 u32 of at most five bytes, canonical, and at most
\* MAX_SEQUENCE_LENGTH = 2^31 - 1.  In the fifth byte a digit above 15
\* leaves u32 and a digit of 8..15 leaves the maximal length.
RECURSIVE parse_length(_, _, _)
parse_length(input, shift, value) ==
    IF shift > 28 THEN Err(IntegerOverflowDuringUleb128Decoding)
    ELSE IF input = <<>> THEN Err(Eof)
    ELSE LET byte == Head(input)
             digit == byte % 128
         IN IF shift = 28 /\ digit > 15 /\ digit = byte
            THEN Err(IntegerOverflowDuringUleb128Decoding)
            ELSE IF shift = 28 /\ digit > 7 /\ digit = byte
            THEN Err(ExceededMaxLen)
            ELSE IF digit = byte
            THEN IF shift > 0 /\ digit = 0
                 THEN Err(NonCanonicalUleb128Encoding)
                 ELSE Ok3(value + digit * (2 ^ shift), Tail(input))
            ELSE parse_length(Tail(input), shift + 7,
                              IF shift = 28 THEN value ELSE value + digit * (2 ^ shift))

\* SeqDeserializer::next_element_seed: the accessor made for `remaining`
\* elements hands out that many, each decoded from the input, and then None.
next_element_seed(remaining, layout, input) ==
    IF remaining = 0 THEN <<"None">> ELSE MoveTypeLayout_deserialize(layout, input)

RECURSIVE VectorElementVisitor_visit_seq(_, _, _, _)
VectorElementVisitor_visit_seq(layout, remaining, input, vals) ==
    LET elem == next_element_seed(remaining, layout, input)
    IN CASE elem[1] = "Err" -> elem
         [] elem[1] = "None" -> Ok3(vals, input)
         [] OTHER -> VectorElementVisitor_visit_seq(layout, remaining - 1, elem[3],
                                                    Append(vals, elem[2]))

\* i counts from 0, as enumerate() does.
RECURSIVE StructFieldVisitor_visit_seq(_, _, _, _, _)
StructFieldVisitor_visit_seq(layouts, i, remaining, input, out) ==
    IF i >= Len(layouts) THEN Ok3(out, input)
    ELSE LET elem == next_element_seed(remaining, layouts[i + 1], input)
         IN CASE elem[1] = "Err" -> elem
              [] elem[1] = "None" -> Err(invalid_length(i))
              [] OTHER -> StructFieldVisitor_visit_seq(layouts, i + 1, remaining - 1,
                                                       elem[3], Append(out, elem[2]))

\* DeserializeSeed for &MoveFieldLayout: the layout's name beside the value.
MoveFieldLayout_deserialize(field, input) ==
    LET r == MoveTypeLayout_deserialize(field[2], input)
    IN IF r[1] = "Err" THEN r ELSE Ok3(<<field[1], r[2]>>, r[3])

RECURSIVE DecoratedStructFieldVisitor_visit_seq(_, _, _, _, _)
DecoratedStructFieldVisitor_visit_seq(fields, i, remaining, input, vals) ==
    IF i >= Len(fields) THEN Ok3(vals, input)
    ELSE LET elem == IF remaining = 0 THEN <<"None">>
                     ELSE MoveFieldLayout_deserialize(fields[i + 1], input)
         IN CASE elem[1] = "Err" -> elem
              [] elem[1] = "None" -> Err(invalid_length(i))
              [] OTHER -> DecoratedStructFieldVisitor_visit_seq(fields, i + 1, remaining - 1,
                                                                elem[3], Append(vals, elem[2]))

\* deserialize_tuple(len, visitor): a sequence accessor for len elements.
deserialize_tuple(len) == len

MoveStructLayout_deserialize(l, input) ==
    CASE Kind(l) = "Runtime" ->
           LET fields == StructFieldVisitor_visit_seq(l[2], 0,
                             deserialize_tuple(Len(l[2])), input, <<>>)
           IN IF fields[1] = "Err" THEN fields ELSE Ok3(Runtime(fields[2]), fields[3])
      [] Kind(l) = "WithFields" ->
           LET fields == DecoratedStructFieldVisitor_visit_seq(l[2], 0,
                             deserialize_tuple(Len(l[2])), input, <<>>)
           IN IF fields[1] = "Err" THEN fields ELSE Ok3(WithFields(fields[2]), fields[3])
      [] Kind(l) = "WithTypes" ->
           LET fields == DecoratedStructFieldVisitor_visit_seq(l[3], 0,
                             deserialize_tuple(Len(l[3])), input, <<>>)
           IN IF fields[1] = "Err" THEN fields
              ELSE Ok3(WithTypes(l[2], fields[2]), fields[3])

MoveTypeLayout_deserialize(layout, input) ==
    CASE layout[1] = "Bool" -> deserialize_bool(input)
      [] layout[1] = "U8" -> deserialize_u8(input)
      [] layout[1] = "U64" -> deserialize_uint("U64", 8, input)
      [] layout[1] = "U128" -> deserialize_uint("U128", 16, input)
      [] layout[1] = "Address" -> deserialize_address("Address", input)
      [] layout[1] = "Signer" -> deserialize_address("Signer", input)
      [] layout[1] = "Struct" ->
           LET s == MoveStructLayout_deserialize(layout[2], input)
           IN IF s[1] = "Err" THEN s ELSE Ok3(Struct(s[2]), s[3])
      [] layout[1] = "Vector" ->
           LET len == parse_length(input, 0, 0)
           IN IF len[1] = "Err" THEN len
              ELSE LET vals == VectorElementVisitor_visit_seq(layout[2], len[2], len[3], <<>>)
                   IN IF vals[1] = "Err" THEN vals ELSE Ok3(Vector(vals[2]), vals[3])

\* bcs::from_bytes_seed: the value, and an error for input left over.
from_bytes_seed(ty, blob_) ==
    LET r == MoveTypeLayout_deserialize(ty, blob_)
    IN CASE r[1] = "Err" -> r
         [] r[3] # <<>> -> Err(RemainingInput)
         [] OTHER -> Ok(r[2])

simple_deserialize(blob_, ty) == from_bytes_seed(ty, blob_)

(***************************************************************************)
(* Bounded inputs of the codec: layouts whose field names are chosen       *)
(* freely (so that a struct may declare b before a, or a twice), and for   *)
(* each layout the values consistent with it.                              *)
(***************************************************************************)
MaxVecLen == 2

CodecNames == {"a", "b"}

\* As StructsOver, the name of every field chosen freely from CodecNames.
StructsOverFree(F, n) ==
    UNION { UNION { { Runtime(f) }
                    \cup { WithFields([i \in 1..k |-> <<nm[i], f[i]>>])
                           : nm \in [1..k -> CodecNames] }
                    \cup { WithTypes(t, [i \in 1..k |-> <<nm[i], f[i]>>])
                           : t \in Tags, nm \in [1..k -> CodecNames] }
                  : f \in [1..k -> F] }
          : k \in 0..n }

CodecInnerLayouts ==
    { <<"U8">>, <<"Signer">>,
      <<"Vector", <<"U64">> >>,
      <<"Struct", Runtime(<< <<"Bool">> >>)>>,
      <<"Struct", WithFields(<< <<"b", <<"U8">> >> >>)>> }

CodecLayouts ==
    PrimLayouts
      \cup { <<"Vector", l>> : l \in PrimLayouts \cup { <<"Vector", <<"U8">> >> } }
      \cup { <<"Struct", l>> : l \in StructsOverFree(CodecInnerLayouts, MaxFields) }

\* The address 0x...01 and the address 0x0102...10.
AddressOne == [i \in 1..AddressLength |-> IF i = AddressLength THEN 1 ELSE 0]

AddressCount == [i \in 1..AddressLength |-> i]

\* The values of the model that are consistent with a layout: the same
\* shape, struct kind, names and type tag at every node.
RECURSIVE ValuesOf(_)
ValuesOf(layout) ==
    CASE layout[1] = "Bool" -> { <<"Bool", TRUE>>, <<"Bool", FALSE>> }
      [] layout[1] = "U8" -> { <<"U8", 0>>, <<"U8", 200>> }
      [] layout[1] = "U64" -> { <<"U64", <<258, 0, 3, 65535>> >> }
      [] layout[1] = "U128" -> { <<"U128", <<1, 2, 3, 4, 5, 6, 7, 32768>> >> }
      [] layout[1] = "Address" -> { <<"Address", AddressOne>>, <<"Address", AddressCount>> }
      [] layout[1] = "Signer" -> { <<"Signer", AddressOne>> }
      [] layout[1] = "Vector" ->
           { Vector(s) : s \in UNION { [1..k -> ValuesOf(layout[2])] : k \in 0..MaxVecLen } }
      [] layout[1] = "Struct" ->
           LET l == layout[2]
               n == Arity(l)
               fl(i) == ValueAt(l, i)
               all == UNION { ValuesOf(fl(i)) : i \in 1..n }
               vals == { f \in [1..n -> all] : \A i \in 1..n : f[i] \in ValuesOf(fl(i)) }
           IN CASE Kind(l) = "Runtime" -> { Struct(Runtime(f)) : f \in vals }
                [] Kind(l) = "WithFields" ->
                     { Struct(WithFields([i \in 1..n |-> <<l[2][i][1], f[i]>>])) : f \in vals }
                [] Kind(l) = "WithTypes" ->
                     { Struct(WithTypes(l[2], [i \in 1..n |-> <<l[3][i][1], f[i]>>])) : f \in vals }

(***************************************************************************)
(* The codec as a state machine: a value is serialized, and the bytes are  *)
(* deserialized against the layout the value is consistent with.           *)
(***************************************************************************)
InitCodec ==
    /\ pc = "ready"
    /\ op = "new"
    /\ lay \in CodecLayouts
    /\ val \in ValuesOf(lay)
    /\ prev = val
    /\ blob = <<>>
    /\ res = None

\* let blob = val.simple_serialize().unwrap()
Serialize ==
    /\ pc = "ready"
    /\ simple_serialize(val)[1] = "Some"
    /\ blob' = simple_serialize(val)[2]
    /\ pc' = "serialized"
    /\ op' = "simple_serialize"
    /\ UNCHANGED <<val, prev, lay, res>>

\* MoveValue::simple_deserialize(&blob, &lay)
Deserialize ==
    /\ pc = "serialized"
    /\ res' = simple_deserialize(blob, lay)
    /\ pc' = "deserialized"
    /\ op' = "simple_deserialize"
    /\ UNCHANGED <<val, prev, lay, blob>>

NextCodec == Serialize \/ Deserialize

SpecCodec == InitCodec /\ [][NextCodec]_vars

(***************************************************************************)
(* Claims about the codec.                                                 *)
(***************************************************************************)
\* A value all of whose structs, at every depth, are Bare.
RECURSIVE AllBare(_)
AllBare(v) ==
    CASE v[1] = "Vector" -> \A i \in 1..Len(v[2]) : AllBare(v[2][i])
      [] v[1] = "Struct" ->
           Kind(v[2]) = "Runtime" /\ \A i \in 1..Len(v[2][2]) : AllBare(v[2][2][i])
      [] OTHER -> TRUE

\* The value with every struct, at every depth, replaced by the Bare struct
\* of its values in order.
RECURSIVE Undecorated(_)
Undecorated(v) ==
    CASE v[1] = "Vector" -> Vector([i \in 1..Len(v[2]) |-> Undecorated(v[2][i])])
      [] v[1] = "Struct" ->
           Struct(Runtime([i \in 1..Arity(v[2]) |-> Undecorated(ValueAt(v[2], i))]))
      [] OTHER -> v

FieldBytes(s) == Concat([i \in 1..Arity(s) |-> MoveValue_serialize(ValueAt(s, i))])

\* The bytes the names of a decorated struct take on the wire.
NameBytes(s) == Concat([i \in 1..Arity(s) |-> serialize_str(NamedFields(s)[i][1])])

DistinctNames(s) ==
    \A i, j \in 1..Arity(s) : i # j => NamedFields(s)[i][1] # NamedFields(s)[j][1]

MaxBlobLen == 4

MaxByte == 2

\* 128 is a ULEB128 continuation byte with no payload.
BlobBytes == (0..MaxByte) \cup {128}

Blobs == UNION { [1..n -> BlobBytes] : n \in 0..MaxBlobLen }

\* Vectors are of one-field structs: every element takes a byte, so a length
\* prefix larger than the input ends in an error at the first missing one.
DecodeLayouts ==
    { <<"Struct", l>> : l \in GenStructLayouts }
      \cup { <<"Vector", <<"Struct", l>> >> :
               l \in { m \in StructsOver({ <<"U8">> }, 1, LayoutNames) : Arity(m) = 1 } }
      \cup PrimLayouts

\* The layout with every struct layout, at every depth, replaced by the
\* Bare layout of its field layouts.
RECURSIVE BareForm(_)
BareForm(layout) ==
    CASE layout[1] = "Vector" -> <<"Vector", BareForm(layout[2])>>
      [] layout[1] = "Struct" ->
           <<"Struct", Runtime([i \in 1..Arity(layout[2]) |->
                                   BareForm(MoveStructLayout_into_fields(layout[2])[i])])>>
      [] OTHER -> layout

InitDecode ==
    /\ pc = "ready"
    /\ op = "new"
    /\ lay \in DecodeLayouts
    /\ blob \in Blobs
    /\ val = None
    /\ prev = None
    /\ res = None

\* MoveValue::simple_deserialize(&blob, &bare) with bare the Bare form of lay
DecodeBare ==
    /\ pc = "ready"
    /\ prev' = simple_deserialize(blob, BareForm(lay))
    /\ pc' = "bare"
    /\ op' = "simple_deserialize"
    /\ UNCHANGED <<val, lay, blob, res>>

\* MoveValue::simple_deserialize(&blob, &lay)
Decode ==
    /\ pc = "bare"
    /\ res' = simple_deserialize(blob, lay)
    /\ pc' = "decoded"
    /\ op' = "simple_deserialize"
    /\ UNCHANGED <<val, prev, lay, blob>>

\* v.decorate(&lay) on the value decoded against the Bare form
DecorateDecoded ==
    /\ pc = "decoded"
    /\ IsOk(prev)
    /\ val' = MoveValue_decorate(prev[2], lay)
    /\ pc' = "compared"
    /\ op' = "decorate"
    /\ UNCHANGED <<prev, lay, blob, res>>

NextDecode == DecodeBare \/ Decode \/ DecorateDecoded

SpecDecode == InitDecode /\ [][NextDecode]_vars

\* How many leading field layouts find an element in the input, and the
\* input left behind them.
RECURSIVE ElementsHeld(_, _, _)
ElementsHeld(layouts, k, input) ==
    IF k >= Len(layouts) THEN <<k, input>>
    ELSE LET r == MoveTypeLayout_deserialize(layouts[k + 1], input)
         IN IF r[1] = "Err" THEN <<k, input>> ELSE ElementsHeld(layouts, k + 1, r[3])

DecodedStruct == pc \in {"decoded", "compared"} /\ lay[1] = "Struct"

\* The byte stream ends behind k whole elements, k below the layout's arity.
HoldsFewer(k) ==
    LET held == ElementsHeld(MoveStructLayout_into_fields(lay[2]), 0, blob)
    IN held[1] = k /\ k < Arity(lay[2]) /\ held[2] = <<>>

\* C3: decoding against a struct layout of N fields a byte stream that
\* holds k < N elements fails with the error that names the index k of the
\* first missing field; decode does not panic, and a successful decode
\* returns a struct of exactly N fields.
C3_AsStated ==
    DecodedStruct =>
      /\ res[1] \in {"Ok", "Err"}
      /\ IsOk(res) => Arity(res[2][2]) = Arity(lay[2])
      /\ \A k \in 0..Arity(lay[2]) : HoldsFewer(k) => res = Err(invalid_length(k))

\* What the code does in C3's case: the error is the deserializer's end of
\* input, which names no index; a struct is never short or padded.
C3_Observed ==
    DecodedStruct =>
      /\ res[1] \in {"Ok", "Err"}
      /\ IsOk(res) => (Kind(res[2][2]) = Kind(lay[2]) /\ Arity(res[2][2]) = Arity(lay[2]))
      /\ \A k \in 0..Arity(lay[2]) : HoldsFewer(k) => res = Err(Eof)
      /\ IsErr(res) => res[2].kind # "InvalidLength"

\* C4: if decoding the bytes against the Bare form of the layout succeeds
\* with v, decoding them against the layout succeeds with v.decorate(layout).
C4_AsStated ==
    pc = "compared" => (IsOk(res) /\ res[2] = val)

\* What does hold of C4's case: decoding against the layout succeeds, and
\* stripping both results gives the same Bare value.
C4_Observed ==
    pc = "compared" => (IsOk(res) /\ Undecorated(res[2]) = prev[2] /\ Undecorated(val) = prev[2])

(***************************************************************************)
(* Decoration and the logical data, read in the states a decorate call     *)
(* has just produced: prev.decorate(lay) = val.                            *)
(***************************************************************************)
\* The bare projection: every struct, at every depth, replaced by the Bare
\* struct of its into_fields() values.
RECURSIVE BareProjection(_)
BareProjection(v) ==
    CASE v[1] = "Vector" -> Vector([i \in 1..Len(v[2]) |-> BareProjection(v[2][i])])
      [] v[1] = "Struct" ->
           Struct(Runtime([i \in 1..Len(MoveStruct_into_fields(v[2])) |->
                              BareProjection(MoveStruct_into_fields(v[2])[i])]))
      [] OTHER -> v

\* Every struct that v.decorate(layout) zips, at every depth the call
\* descends to, has as many values as its layout has fields.
RECURSIVE ZipsMatched(_, _)
ZipsMatched(v, layout) ==
    CASE v[1] = "Vector" /\ layout[1] = "Vector" ->
           \A i \in 1..Len(v[2]) : ZipsMatched(v[2][i], layout[2])
      [] v[1] = "Struct" /\ layout[1] = "Struct" ->
           Zips(v[2], layout[2]) =>
             /\ Arity(v[2]) = Arity(layout[2])
             /\ \A i \in 1..Arity(v[2]) :
                  ZipsMatched(ValueAt(v[2], i), NamedFields(layout[2])[i][2])
      [] OTHER -> TRUE

\* C11 without its condition on the lengths: every decorate call keeps the
\* bare projection.
C11_Unconditioned ==
    Decorated => BareProjection(Struct(val)) = BareProjection(Struct(prev))

\* C11: a decorate call in which each struct that is zipped has as many
\* values as the layout has fields leaves the bare projection of the struct
\* as it was: names and type tags are added, and no primitive, address,
\* signer or vector element is changed, reordered or dropped.  The struct
\* of a call is any struct earlier calls have returned, so the projection
\* is kept along every sequence of such calls.
C11_DataPreserved ==
    (Decorated /\ ZipsMatched(Struct(prev), Struct(lay)))
    => BareProjection(Struct(val)) = BareProjection(Struct(prev))

\* C11's case: a Bare struct of a vector of structs and a nested struct,
\* typed by a layout that names the structs at every depth.
C11_Witness ==
    /\ Decorated /\ ZipsMatched(Struct(prev), Struct(lay))
    /\ Kind(prev) = "Runtime" /\ Kind(lay) = "WithTypes"
    /\ Len(prev[2]) = 2 /\ Len(lay[3]) = 2
    /\ prev[2][1][1] = "Vector" /\ lay[3][1][2][1] = "Vector"
    /\ prev[2][2][1] = "Struct" /\ lay[3][2][2][1] = "Struct"
    /\ Kind(lay[3][2][2][2]) = "WithTypes"
    /\ val[3][1][2] # prev[2][1] /\ val[3][2][2] # prev[2][2]
    /\ BareProjection(Struct(val)) = BareProjection(Struct(prev))

\* C11's case in a sequence: a struct an earlier call named, typed by a
\* later call that decorates the Bare struct the first call left inside it.
C11_WitnessSecondCall ==
    /\ Decorated /\ ZipsMatched(Struct(prev), Struct(lay))
    /\ Kind(prev) = "WithFields" /\ Kind(lay) = "WithTypes"
    /\ Len(prev[2]) = 2 /\ NamedFields(prev)[1][1] = "a"
    /\ val # prev /\ ValueAt(val, 1) # ValueAt(prev, 1)
    /\ BareProjection(Struct(val)) = BareProjection(Struct(prev))

====
